---- MODULE Spec2Model ----
(***************************************************************************)
(* Model of the Eufy RoboVac S1 Pro integration                            *)
(* (custom_components/eufy_robovac_s1_pro/vacuum.py): the DPS 153 status   *)
(* decoder, the entity's read accessors and the command coroutines that    *)
(* write DPS 152 / 5 / 173 through the coordinator's Tuya client.          *)
(*                                                                         *)
(* Python strings are sequences of character codes, byte blobs are         *)
(* sequences of 0..255, and a Python value is a record [ty, i, s] whose    *)
(* type tag ty says which of the integer i or the sequence s is meant.     *)
(***************************************************************************)
EXTENDS Integers, Sequences, FiniteSets, TLC

VARIABLES
    data,        \* coordinator.data: None, or the dict of the last status read
    was_paused,  \* RobovacVacuum._was_paused, the shadow flag
    room_map,    \* config_entry.options[CONF_ROOM_MAPPINGS]
    task,        \* the command coroutines in flight on the event loop
    dec_in,      \* argument handed to decode_dps153_to_state
    dec_out,     \* its result, NoResult until it has been called
    read         \* the last read accessor evaluated and what it gave

vars == <<data, was_paused, room_map, task, dec_in, dec_out, read>>

(***************************************************************************)
(* Python values                                                           *)
(***************************************************************************)
PyInt(n)   == [ty |-> "int",   i |-> n, s |-> <<>>]
PyStr(cs)  == [ty |-> "str",   i |-> 0, s |-> cs]
PyBytes(b) == [ty |-> "bytes", i |-> 0, s |-> b]
PyNone     == [ty |-> "none",  i |-> 0, s |-> <<>>]

\* S1_PRO_COMMANDS, the DPS 152 tokens.
S1_PRO_COMMANDS ==
    [start    |-> <<65, 65, 61, 61>>,      \* "AA=="
     cleaning |-> <<65, 103, 103, 79>>,    \* "AggO"
     pause    |-> <<65, 103, 103, 78>>,    \* "AggN"
     return   |-> <<65, 103, 103, 71>>]    \* "AggG"

(***************************************************************************)
(* base64.b64decode (non-strict), as binascii.a2b_base64 computes it:      *)
(* characters outside the alphabet are skipped, a pad sequence that        *)
(* completes a quad ends the input, leftover data characters are an error. *)
(***************************************************************************)
table_a2b_base64(c) ==
    IF c >= 65 /\ c <= 90 THEN c - 65
    ELSE IF c >= 97 /\ c <= 122 THEN c - 71
    ELSE IF c >= 48 /\ c <= 57 THEN c + 4
    ELSE IF c = 43 THEN 62
    ELSE IF c = 47 THEN 63
    ELSE 64

RECURSIVE a2b_base64(_, _, _, _, _, _)
a2b_base64(str, idx, quad_pos, leftchar, pads, out) ==
    IF idx > Len(str)
    THEN [exc |-> quad_pos # 0, val |-> out]
    ELSE LET this_ch == str[idx] IN
         IF this_ch = 61                          \* BASE64_PAD, '='
         THEN IF quad_pos >= 2 /\ quad_pos + pads + 1 >= 4
              THEN [exc |-> FALSE, val |-> out]
              ELSE a2b_base64(str, idx + 1, quad_pos, leftchar,
                              IF quad_pos >= 2 THEN pads + 1 ELSE pads, out)
         ELSE LET d == table_a2b_base64(this_ch) IN
              IF d >= 64
              THEN a2b_base64(str, idx + 1, quad_pos, leftchar, pads, out)
              ELSE CASE quad_pos = 0 ->
                        a2b_base64(str, idx + 1, 1, d, 0, out)
                     [] quad_pos = 1 ->
                        a2b_base64(str, idx + 1, 2, d % 16, 0,
                                   Append(out, leftchar * 4 + (d \div 16)))
                     [] quad_pos = 2 ->
                        a2b_base64(str, idx + 1, 3, d % 4, 0,
                                   Append(out, leftchar * 16 + (d \div 4)))
                     [] OTHER ->
                        a2b_base64(str, idx + 1, 0, 0, 0,
                                   Append(out, leftchar * 64 + d))

b64decode(str) == a2b_base64(str, 1, 0, 0, 0, <<>>)

(***************************************************************************)
(* decode_dps153_to_state and _get_docked_substatus                        *)
(***************************************************************************)
\* RobovacState, by the enum's values.
RobovacState ==
    {"cleaning", "room_cleaning", "paused", "returning", "docked", "error", "unknown"}

Ret(state, substatus) == [exc |-> FALSE, state |-> state, sub |-> substatus]
Raised == [exc |-> TRUE, state |-> "none", sub |-> "none"]
NoResult == [exc |-> FALSE, state |-> "none", sub |-> "none"]

\* decoded[k] of the Python code, k counted from 0.
At(decoded, k) == decoded[k + 1]

_get_docked_substatus(decoded) ==
    IF Len(decoded) < 3 THEN "unknown"
    ELSE LET byte1 == At(decoded, 1)
             byte2 == At(decoded, 2)
         IN
         IF byte1 = 16 /\ byte2 = 3
         THEN IF Len(decoded) >= 5 /\ At(decoded, 4) = 0 THEN "charging"
              ELSE IF Len(decoded) >= 5 /\ At(decoded, 4) = 2 THEN "fully_charged"
              ELSE "charging"
         ELSE IF byte1 = 16 /\ byte2 = 9
         THEN IF Len(decoded) >= 4 /\ At(decoded, 3) = 250 THEN "dust_collecting"
              ELSE IF Len(decoded) >= 4 /\ At(decoded, 3) = 26 THEN "mop_drying"
              ELSE IF Len(decoded) >= 4 /\ At(decoded, 3) = 58 THEN "mop_washing"
              ELSE "mop_operations"
         ELSE IF byte1 = 10 /\ byte2 = 0
                 /\ Len(decoded) >= 5 /\ At(decoded, 3) = 16 /\ At(decoded, 4) = 9
         THEN IF Len(decoded) >= 12 /\ At(decoded, 11) = 58 THEN "mop_washing_pre"
              ELSE "water_refilling"
         ELSE "idle"

\* The names the function has assigned when control reaches line 106
\* (parameter, line 86/88, 95, 96, 99).  Reading any other local name there
\* raises NameError.
NamesBoundAtRules == {"dps153_value", "decoded", "byte1", "byte2", "hex_str"}

\* Lines 104-142: the ordered rules, entered with len(decoded) >= 3.
decode_rules(decoded) ==
    LET byte1 == At(decoded, 1)
        byte2 == At(decoded, 2)
    IN
    IF "byte0" \notin NamesBoundAtRules
    THEN Raised                                   \* line 106 reads byte0
    ELSE IF At(decoded, 0) = 6 /\ byte1 = 16 /\ byte2 = 3
    THEN Ret("room_cleaning", "cleaning")
    ELSE IF byte1 = 10 /\ Len(decoded) >= 5 /\ byte2 = 0
            /\ At(decoded, 3) = 16 /\ At(decoded, 4) = 5
    THEN IF Len(decoded) >= 7 /\ At(decoded, 6) = 2
         THEN Ret("paused", "paused")
         ELSE Ret("cleaning", "cleaning")
    ELSE IF byte1 = 10 /\ Len(decoded) >= 5 /\ byte2 = 0
            /\ At(decoded, 3) = 16 /\ At(decoded, 4) = 9
    THEN Ret("docked", _get_docked_substatus(decoded))
    ELSE IF byte1 = 16 /\ byte2 = 7 /\ Len(decoded) >= 4 /\ At(decoded, 3) = 66
    THEN Ret("returning", "returning")
    ELSE IF byte1 = 16
    THEN Ret("docked", _get_docked_substatus(decoded))
    ELSE Ret("docked", "idle")

\* Lines 91-93: the minimum length accepted.
decode_min_len_off_by_one(decoded) == Len(decoded) < 2
decode_too_short(decoded) == Len(decoded) < 3

\* Lines 84-142: the body of the try block.  len() of a value that is neither
\* a string nor a sequence raises TypeError; an index past the end raises
\* IndexError.
decode_try_body(dps153_value) ==
    LET dec == IF dps153_value.ty = "str"
               THEN b64decode(dps153_value.s)
               ELSE [exc |-> dps153_value.ty # "bytes", val |-> dps153_value.s]
    IN
    IF dec.exc THEN Raised
    ELSE IF decode_too_short(dec.val) THEN Ret("unknown", "unknown")
    ELSE IF Len(dec.val) < 3 THEN Raised          \* decoded[2] at line 96
    ELSE decode_rules(dec.val)

\* Lines 83-146: try / except Exception.
decode_without_except(dps153_value) == decode_try_body(dps153_value)
decode_dps153_to_state(dps153_value) ==
    LET r == decode_try_body(dps153_value) IN
    IF r.exc THEN Ret("unknown", "error") ELSE r

(***************************************************************************)
(* coordinator.data and the activity property                              *)
(***************************************************************************)
\* A status dict is a function from DPS keys to Python values; coordinator
\* .data is None until a first read has succeeded.
NoneData == [none |-> TRUE, d |-> [k \in {} |-> PyNone]]
Dict(d) == [none |-> FALSE, d |-> d]
EmptyDict == Dict([k \in {} |-> PyNone])

\* dict.get(key, default)
Get(dat, key, default) == IF key \in DOMAIN dat.d THEN dat.d[key] ELSE default

\* Python truth value of a dict / None, and of a value.
DataTruthy(dat) == ~dat.none /\ DOMAIN dat.d # {}
Truthy(v) ==
    CASE v.ty = "str" -> Len(v.s) > 0
      [] v.ty = "bytes" -> Len(v.s) > 0
      [] v.ty = "int" -> v.i # 0
      [] OTHER -> FALSE

\* v == "<string literal>" and v == <int literal>
StrEq(v, cs) == v.ty = "str" /\ v.s = cs
IntEq(v, n) == v.ty = "int" /\ v.i = n

ActRet(val, flag) == [exc |-> FALSE, val |-> val, flag |-> flag]
ActRaise(flag) == [exc |-> TRUE, val |-> "none", flag |-> flag]

\* Lines 324-360: the DPS 152 / 6 / 7 / 8 fallback of activity.
activity_fallback(dat, flag) ==
    LET dps152 == Get(dat, "152", PyStr(<<>>))
        dps6 == Get(dat, "6", PyInt(0))
        dps7 == Get(dat, "7", PyInt(0))
        battery == Get(dat, "8", PyInt(0))
    IN
    IF StrEq(dps152, S1_PRO_COMMANDS.cleaning) THEN ActRet("cleaning", FALSE)
    ELSE IF StrEq(dps152, S1_PRO_COMMANDS.pause) THEN ActRet("paused", TRUE)
    ELSE IF StrEq(dps152, S1_PRO_COMMANDS.return) THEN ActRet("returning", FALSE)
    ELSE IF IntEq(dps6, 2) /\ IntEq(dps7, 3) THEN ActRet("cleaning", FALSE)
    ELSE IF IntEq(dps6, 3) /\ IntEq(dps7, 4) THEN ActRet("paused", TRUE)
    ELSE IF IntEq(dps6, 1) /\ IntEq(dps7, 2) THEN ActRet("returning", FALSE)
    ELSE IF IntEq(dps6, 0) /\ IntEq(dps7, 0)
    THEN IF battery.ty # "int" THEN ActRaise(flag)      \* battery >= 95
         ELSE IF battery.i >= 95 THEN ActRet("docked", flag)
         ELSE ActRet("idle", flag)
    ELSE ActRet("idle", flag)

\* Lines 302-322: what activity does with the decoder's verdict.
activity_of_detected(detected_state, flag) ==
    CASE detected_state \in {"cleaning", "room_cleaning"} -> ActRet("cleaning", FALSE)
      [] detected_state = "paused" -> ActRet("paused", TRUE)
      [] detected_state = "returning" -> ActRet("returning", FALSE)
      [] detected_state = "docked" -> ActRet("docked", FALSE)
      [] detected_state = "error" -> ActRet("error", flag)
      [] OTHER -> ActRet("idle", flag)

\* Lines 274-360: the activity property.  It returns the VacuumActivity (or
\* None) and, as a side effect, the new value of _was_paused.
activity_decoder_first(dat, flag) ==
    LET dps6 == Get(dat, "6", PyInt(0))
        dps153 == Get(dat, "153", PyStr(<<>>))
    IN
    IF ~DataTruthy(dat) THEN ActRet("None", flag)
    ELSE IF Truthy(dps153)
    THEN activity_of_detected(decode_dps153_to_state(dps153).state, flag)
    ELSE IF dps6.ty = "int" /\ dps6.i >= 100 THEN ActRet("error", flag)
    ELSE activity_fallback(dat, flag)
activity(dat, flag) ==
    LET dps6 == Get(dat, "6", PyInt(0))
        dps153 == Get(dat, "153", PyStr(<<>>))
    IN
    IF ~DataTruthy(dat) THEN ActRet("None", flag)
    ELSE IF dps6.ty = "int" /\ dps6.i >= 100 THEN ActRet("error", flag)
    ELSE IF Truthy(dps153)
    THEN activity_of_detected(decode_dps153_to_state(dps153).state, flag)
    ELSE activity_fallback(dat, flag)

(***************************************************************************)
(* The fan speed tables and the read accessors battery_level, error_code   *)
(* and fan_speed.  An accessor gives [exc, name, num]: name is "None", the  *)
(* level, "int" or "str" with the number in num, or the exception raised.  *)
(***************************************************************************)
\* Lines 24-29: the (DPS 9, DPS 158) tokens of a level, as character codes.
HA_TO_EUFY_FAN_SPEED_MAP ==
    [Quiet |-> <<<<103, 101, 110, 116, 108, 101>>, <<81, 117, 105, 101, 116>>>>,   \* gentle, Quiet
     Standard |-> <<<<110, 111, 114, 109, 97, 108>>, <<83, 116, 97, 110, 100, 97, 114, 100>>>>,   \* normal, Standard
     Turbo |-> <<<<115, 116, 114, 111, 110, 103>>, <<84, 117, 114, 98, 111>>>>,   \* strong, Turbo
     Maximum |-> <<<<109, 97, 120>>, <<77, 97, 120>>>>]   \* max, Max

\* Lines 32-42: EUFY_TO_HA_FAN_SPEED_MAP, the level a device token shows as.
EUFY_TO_HA_Max_is_Turbo ==
    <<103, 101, 110, 116, 108, 101>> :> "Quiet"   \* gentle
    @@ <<110, 111, 114, 109, 97, 108>> :> "Standard"   \* normal
    @@ <<115, 116, 114, 111, 110, 103>> :> "Turbo"   \* strong
    @@ <<109, 97, 120>> :> "Maximum"   \* max
    @@ <<81, 117, 105, 101, 116>> :> "Quiet"   \* Quiet
    @@ <<83, 116, 97, 110, 100, 97, 114, 100>> :> "Standard"   \* Standard
    @@ <<84, 117, 114, 98, 111>> :> "Turbo"   \* Turbo
    @@ <<77, 97, 120>> :> "Turbo"   \* Max
    @@ <<109, 105, 100, 100, 108, 101>> :> "Standard"   \* middle
EUFY_TO_HA_FAN_SPEED_MAP ==
    <<103, 101, 110, 116, 108, 101>> :> "Quiet"   \* gentle
    @@ <<110, 111, 114, 109, 97, 108>> :> "Standard"   \* normal
    @@ <<115, 116, 114, 111, 110, 103>> :> "Turbo"   \* strong
    @@ <<109, 97, 120>> :> "Maximum"   \* max
    @@ <<81, 117, 105, 101, 116>> :> "Quiet"   \* Quiet
    @@ <<83, 116, 97, 110, 100, 97, 114, 100>> :> "Standard"   \* Standard
    @@ <<84, 117, 114, 98, 111>> :> "Turbo"   \* Turbo
    @@ <<77, 97, 120>> :> "Maximum"   \* Max
    @@ <<109, 105, 100, 100, 108, 101>> :> "Standard"   \* middle

NoRead == [acc |-> "none", exc |-> FALSE, name |-> "None", num |-> 0]
ReadRet(acc, name, num) == [acc |-> acc, exc |-> FALSE, name |-> name, num |-> num]
ReadRaise(acc, kind) == [acc |-> acc, exc |-> TRUE, name |-> kind, num |-> 0]

\* int(value): an int is itself; a str is stripped of white space and read
\* as an optional sign and decimal digits, single underscores allowed
\* between digits (ValueError otherwise); None is a TypeError.
IsSpace(c) == c \in {9, 10, 11, 12, 13, 32}
IsDigit(c) == c \in 48..57

RECURSIVE lstrip(_)
lstrip(s) == IF s # <<>> /\ IsSpace(Head(s)) THEN lstrip(Tail(s)) ELSE s

RECURSIVE rstrip(_)
rstrip(s) ==
    IF s # <<>> /\ IsSpace(s[Len(s)]) THEN rstrip(SubSeq(s, 1, Len(s) - 1)) ELSE s

IsDecimal(s) ==
    /\ s # <<>>
    /\ IsDigit(s[1]) /\ IsDigit(s[Len(s)])
    /\ \A k \in 1..Len(s) : IsDigit(s[k]) \/ s[k] = 95
    /\ \A k \in 1..(Len(s) - 1) : ~(s[k] = 95 /\ s[k + 1] = 95)

RECURSIVE DecimalValue(_, _)
DecimalValue(s, acc) ==
    IF s = <<>> THEN acc
    ELSE IF Head(s) = 95 THEN DecimalValue(Tail(s), acc)
    ELSE DecimalValue(Tail(s), acc * 10 + (Head(s) - 48))

IntOk(n) == [exc |-> "none", i |-> n]
IntRaise(kind) == [exc |-> kind, i |-> 0]

py_int(value) ==
    CASE value.ty = "int" -> IntOk(value.i)
      [] value.ty = "none" -> IntRaise("TypeError")
      [] OTHER ->
          LET s == rstrip(lstrip(value.s))
              signed == s # <<>> /\ s[1] \in {43, 45}
              digits == IF signed THEN Tail(s) ELSE s
          IN IF ~IsDecimal(digits) THEN IntRaise("ValueError")
             ELSE IF signed /\ s[1] = 45 THEN IntOk(0 - DecimalValue(digits, 0))
             ELSE IntOk(DecimalValue(digits, 0))

\* Lines 367-375 and 378-385: one battery field; "skip" when the field is
\* absent or None, does not convert, or is outside 0..100.
battery_field(dat, key) ==
    IF key \notin DOMAIN dat.d \/ dat.d[key].ty = "none" THEN IntRaise("skip")
    ELSE LET battery == py_int(dat.d[key]) IN
         IF battery.exc # "none" THEN IntRaise("skip")
         ELSE IF 0 <= battery.i /\ battery.i <= 100 THEN battery
         ELSE IntRaise("skip")

\* Lines 362-385: the battery_level property.
battery_level(dat) ==
    IF ~DataTruthy(dat) THEN ReadRet("battery_level", "None", 0)
    ELSE IF battery_field(dat, "8").exc = "none"
    THEN ReadRet("battery_level", "int", battery_field(dat, "8").i)
    ELSE IF battery_field(dat, "163").exc = "none"
    THEN ReadRet("battery_level", "int", battery_field(dat, "163").i)
    ELSE ReadRet("battery_level", "None", 0)

\* Lines 421-429: the error_code property.
error_code(dat) ==
    IF DataTruthy(dat) /\ "6" \in DOMAIN dat.d
       /\ dat.d["6"].ty = "int" /\ dat.d["6"].i >= 100
    THEN ReadRet("error_code", "str", dat.d["6"].i)
    ELSE ReadRet("error_code", "None", 0)

\* Lines 437 and 442: raw_speed and raw_speed in EUFY_TO_HA_FAN_SPEED_MAP
KnownSpeed_any_string(raw_speed) == raw_speed.ty = "str"
KnownSpeed(raw_speed) ==
    Truthy(raw_speed) /\ raw_speed.ty = "str"
        /\ raw_speed.s \in DOMAIN EUFY_TO_HA_FAN_SPEED_MAP

\* Lines 431-444: the fan_speed property.  A token that passes the test of
\* line 437 / 442 and is no key of the table would be a KeyError.
fan_speed(dat) ==
    LET dps9 == Get(dat, "9", PyNone)
        dps158 == Get(dat, "158", PyNone)
        lookup(raw_speed) ==
            IF raw_speed.s \in DOMAIN EUFY_TO_HA_FAN_SPEED_MAP
            THEN ReadRet("fan_speed", EUFY_TO_HA_FAN_SPEED_MAP[raw_speed.s], 0)
            ELSE ReadRaise("fan_speed", "KeyError")
    IN
    IF ~DataTruthy(dat) THEN ReadRet("fan_speed", "None", 0)
    ELSE IF KnownSpeed(dps9) THEN lookup(dps9)
    ELSE IF KnownSpeed(dps158) THEN lookup(dps158)
    ELSE ReadRet("fan_speed", "None", 0)

(***************************************************************************)
(* The command coroutines.  A coroutine runs without interruption from one *)
(* await to the next; task[t].pc names the await it is suspended in:       *)
(*   aw152 / aw5 / aw173  tuya_client.async_set of that DPS                *)
(*   aw9                  tuya_client.async_set of DPS 9 and 158           *)
(*   sl05 / sl10 / sl20   asyncio.sleep(0.5 / 1.0 / 2.0)                   *)
(*   sl05r                asyncio.sleep(0.5) of the room command           *)
(*   arefresh / afinal    coordinator.async_request_refresh                *)
(* task[t].log lists the device operations the coroutine has issued, each  *)
(* <<dps, value, outcome>>, a refresh request as <<"refresh", "", _>>.      *)
(* task[t].before is _was_paused as it was when a resuming Start was       *)
(* called, "n/a" for every other coroutine.                                *)
(* _last_command, _last_command_time, _detected_state and _substatus are   *)
(* only ever written and are left out.                                     *)
(***************************************************************************)
Tasks == {"t1", "t2"}

\* The status dicts a read of the device can produce.
StatusValues ==
    { EmptyDict,
      Dict("152" :> PyStr(S1_PRO_COMMANDS.cleaning)),
      Dict("152" :> PyStr(S1_PRO_COMMANDS.pause)),
      Dict("6" :> PyInt(3) @@ "7" :> PyInt(4)),
      Dict("6" :> PyInt(0) @@ "7" :> PyInt(0) @@ "8" :> PyInt(96)),
      Dict("6" :> PyInt(100)),
      \* "BgoAEAUYAg==": 06 0a 00 10 05 18 02, the paused pattern
      Dict("153" :> PyStr(<<66, 103, 111, 65, 69, 65, 85, 89, 65, 103, 61, 61>>)),
      \* "BgoAEAUY": 06 0a 00 10 05 18, the cleaning pattern
      Dict("153" :> PyStr(<<66, 103, 111, 65, 69, 65, 85, 89>>)
           @@ "152" :> PyStr(S1_PRO_COMMANDS.pause)),
      \* "AA==": a one-byte blob
      Dict("153" :> PyStr(S1_PRO_COMMANDS.start)) }

\* What coordinator.data is after a refresh: a fresh status dict, or the old
\* value when the read failed or the request was debounced.
RefreshOutcomes(dat) == StatusValues \cup {dat}

RoomMaps == { {}, {"1"} }          \* the configured room ids
RoomParams == {"none", "1", "2"}   \* params["room_id"], "none" when missing

\* The exception an intent raised: its kind, and for the room errors the
\* room id and the configured ids its message quotes.
NoErr == [kind |-> "none", msg |-> "", room_id |-> "", rooms |-> {}]
Err(kind, msg, room_id, rooms) ==
    [kind |-> kind, msg |-> msg, room_id |-> room_id, rooms |-> rooms]

IdleTask ==
    [intent |-> "none", arg |-> "", seq |-> "none", cmd |-> "none", pc |-> "idle",
     result |-> "none", err |-> NoErr, log |-> <<>>, before |-> "n/a"]

Op(dps, val) == <<dps, val, "pending">>
Issue(tk, op) == [tk EXCEPT !.log = Append(@, op)]
Settle(tk, outcome) ==
    [tk EXCEPT !.log = [@ EXCEPT ![Len(@)] = <<@[1], @[2], outcome>>]]
Began(intent, seq, cmd, pc, op) ==
    [intent |-> intent, arg |-> "", seq |-> seq, cmd |-> cmd, pc |-> pc,
     result |-> "none", err |-> NoErr, log |-> <<op>>, before |-> "n/a"]
Failed(intent, err) ==
    [IdleTask EXCEPT !.intent = intent, !.result = "raised", !.err = err]
Return(tk, res) ==
    [tk EXCEPT !.pc = "idle", !.result = res,
               !.err = IF res = "raised"
                       THEN Err("TransportError", "", "", {}) ELSE NoErr]

Running(tk) == tk.pc # "idle"

\* Lines 466-472: the DPS 5 mode that follows a DPS 152 command.
ModeFor(cmd) ==
    CASE cmd = "start" -> "smart"
      [] cmd = "pause" -> "pause"
      [] cmd = "return" -> "charge"
      [] OTHER -> "none"

\* The except clauses an exception raised by async_set passes through:
\* _send_command (478-480) re-raises, then async_turn_on (507-509) and
\* _handle_clean_room_command (691-693) re-raise, async_pause (562-564)
\* resets the flag and swallows, async_return_to_base (583-584) and
\* async_set_fan_speed (614-615) swallow.
ExceptResult(seq) == IF seq \in {"pause", "return", "fan"} THEN "ok" ELSE "raised"
ExceptFlag_keeps_flag(seq, flag) == flag
ExceptFlag(seq, flag) == IF seq = "pause" THEN FALSE ELSE flag

\* Lines 520-535: does async_start resume?  a is what self.activity gave.
start_resumes(dat, a) ==
    LET current_dps152 == Get(dat, "152", PyStr(<<>>))
        current_dps153 == Get(dat, "153", PyStr(<<>>))
        is_paused_by_dps153 ==
            Truthy(current_dps153)
            /\ decode_dps153_to_state(current_dps153).state = "paused"
    IN \/ a.val = "paused"
       \/ a.flag
       \/ is_paused_by_dps153
       \/ StrEq(current_dps152, S1_PRO_COMMANDS.pause)

\* Lines 516-548, up to the first await.
async_start(t) ==
    /\ task[t].pc = "idle"
    /\ LET a == activity(data, was_paused) IN
       IF a.exc \/ data.none            \* TypeError in activity; None.get
       THEN /\ was_paused' = a.flag
            /\ task' = [task EXCEPT ![t] =
                   Failed("start", Err(IF a.exc THEN "TypeError" ELSE "AttributeError",
                                       "", "", {}))]
       ELSE IF start_resumes(data, a)
       THEN /\ was_paused' = a.flag
            /\ task' = [task EXCEPT ![t] =
                   [Began("start", "resume", "cleaning", "aw152", Op("152", "cleaning"))
                        EXCEPT !.before = IF was_paused THEN "true" ELSE "false"]]
       ELSE /\ was_paused' = FALSE      \* async_turn_on, line 488
            /\ task' = [task EXCEPT ![t] =
                   Began("start", "fresh", "start", "aw152", Op("152", "start"))]
    /\ UNCHANGED <<data, room_map, dec_in, dec_out, read>>

\* Lines 482-491, up to the first await.
async_turn_on(t) ==
    /\ task[t].pc = "idle"
    /\ was_paused' = FALSE
    /\ task' = [task EXCEPT ![t] =
           Began("turn_on", "fresh", "start", "aw152", Op("152", "start"))]
    /\ UNCHANGED <<data, room_map, dec_in, dec_out, read>>

\* Lines 550-559, up to the first await, entered for the intent named.
pause_body(t, intent) ==
    /\ task[t].pc = "idle"
    /\ task' = [task EXCEPT ![t] =
           Began(intent, "pause", "pause", "aw152", Op("152", "pause"))]
    /\ was_paused' = TRUE
    /\ UNCHANGED <<data, room_map, dec_in, dec_out, read>>

async_pause(t) == pause_body(t, "pause")

\* Lines 566-569: await self.async_pause().
async_stop_returns_to_base(t) ==
    /\ task[t].pc = "idle"
    /\ task' = [task EXCEPT ![t] =
           Began("stop", "return", "return", "aw152", Op("152", "return"))]
    /\ was_paused' = FALSE
    /\ UNCHANGED <<data, room_map, dec_in, dec_out, read>>
async_stop(t) == pause_body(t, "stop")

\* Lines 511-514: await self.async_pause().
async_turn_off(t) == pause_body(t, "turn_off")

\* Lines 571-580, up to the first await.
async_return_to_base(t) ==
    /\ task[t].pc = "idle"
    /\ was_paused' = FALSE
    /\ task' = [task EXCEPT ![t] =
           Began("return", "return", "return", "aw152", Op("152", "return"))]
    /\ UNCHANGED <<data, room_map, dec_in, dec_out, read>>

\* Lines 628-657: the ValueError _handle_clean_room_command raises before it
\* writes anything, NoErr when the room id is configured.
MsgRoomIdRequired == "room_id parameter is required"
MsgNoMappings == "No room mappings configured. Please add room mappings by: ..."
MsgRoomNotFound == "Room ID not found in configured rooms. Available rooms: ..."

resolve_room_kinds_swapped(room_id, rooms) ==
    IF room_id = "none" THEN Err("ValueError", MsgRoomIdRequired, "", {})
    ELSE IF rooms = {} THEN Err("ValueError", MsgRoomNotFound, room_id, rooms)
    ELSE IF room_id \notin rooms THEN Err("ValueError", MsgNoMappings, "", {})
    ELSE NoErr
resolve_room(room_id, rooms) ==
    IF room_id = "none" THEN Err("ValueError", MsgRoomIdRequired, "", {})
    ELSE IF rooms = {} THEN Err("ValueError", MsgNoMappings, "", {})
    ELSE IF room_id \notin rooms THEN Err("ValueError", MsgRoomNotFound, room_id, rooms)
    ELSE NoErr

\* Lines 617-666: async_send_command("clean_room", params) up to the first
\* await.
clean_room(t) ==
    /\ task[t].pc = "idle"
    /\ \E room_id \in RoomParams :
          LET e == resolve_room(room_id, room_map) IN
          IF e # NoErr
          THEN task' = [task EXCEPT ![t] =
                   [Failed("clean_room", e) EXCEPT !.arg = room_id]]
          ELSE task' = [task EXCEPT ![t] =
                   [Began("clean_room", "room", "none", "aw173", Op("173", room_id))
                        EXCEPT !.arg = room_id]]
    /\ UNCHANGED <<data, was_paused, room_map, dec_in, dec_out, read>>

\* Lines 617-624: async_send_command(command, params); every command but
\* clean_room raises ValueError before anything else happens.
MsgUnsupported == "Unsupported command: ..."
CommandNames == {"clean_room", "spot_clean"}

async_send_command_ignores_unknown(t) ==
    \E command \in CommandNames :
        IF command = "clean_room" THEN clean_room(t)
        ELSE /\ task[t].pc = "idle"
             /\ task' = [task EXCEPT ![t] =
                    [IdleTask EXCEPT !.intent = "send_command", !.arg = command,
                                     !.result = "ok"]]
             /\ UNCHANGED <<data, was_paused, room_map, dec_in, dec_out, read>>
async_send_command(t) ==
    \E command \in CommandNames :
        IF command = "clean_room" THEN clean_room(t)
        ELSE /\ task[t].pc = "idle"
             /\ task' = [task EXCEPT ![t] =
                    [Failed("send_command", Err("ValueError", MsgUnsupported, "", {}))
                         EXCEPT !.arg = command]]
             /\ UNCHANGED <<data, was_paused, room_map, dec_in, dec_out, read>>

\* The fan_speed arguments tried: the four levels and a name that is none.
FanSpeedArgs == DOMAIN HA_TO_EUFY_FAN_SPEED_MAP \cup {"Loud"}

\* Lines 596-611: async_set_fan_speed up to its await; an unknown level is
\* logged and the call returns.
async_set_fan_speed(t) ==
    /\ task[t].pc = "idle"
    /\ \E level \in FanSpeedArgs :
          IF level \notin DOMAIN HA_TO_EUFY_FAN_SPEED_MAP
          THEN task' = [task EXCEPT ![t] =
                   [IdleTask EXCEPT !.intent = "set_fan_speed", !.arg = level,
                                    !.result = "ok"]]
          ELSE task' = [task EXCEPT ![t] =
                   [Began("set_fan_speed", "fan", "none", "aw9",
                          Op("9+158", level)) EXCEPT !.arg = level]]
    /\ UNCHANGED <<data, was_paused, room_map, dec_in, dec_out, read>>

\* tuya_client.async_set completes or raises.
async_set_done_swallows_failure(t) ==
    /\ task[t].pc \in {"aw152", "aw5", "aw173", "aw9"}
    /\ \E ok \in BOOLEAN :
          task' = [task EXCEPT ![t] =
              IF task[t].pc = "aw9"
              THEN Return(Settle(@, IF ok THEN "ok" ELSE "failed"), "ok")
              ELSE [Settle(@, IF ok THEN "ok" ELSE "failed") EXCEPT !.pc =
                       CASE task[t].pc = "aw152" -> "sl05"
                         [] task[t].pc = "aw5" -> "sl10"
                         [] OTHER -> "sl05r"]]
    /\ UNCHANGED <<data, was_paused, room_map, dec_in, dec_out, read>>
async_set_done(t) ==
    /\ task[t].pc \in {"aw152", "aw5", "aw173", "aw9"}
    /\ \E ok \in BOOLEAN :
          IF ok
          THEN /\ task' = [task EXCEPT ![t] =
                      IF task[t].pc = "aw9"
                      THEN Return(Settle(@, "ok"), "ok")
                      ELSE [Settle(@, "ok") EXCEPT !.pc =
                               CASE task[t].pc = "aw152" -> "sl05"
                                 [] task[t].pc = "aw5" -> "sl10"
                                 [] OTHER -> "sl05r"]]
               /\ was_paused' = was_paused
          ELSE /\ task' = [task EXCEPT ![t] =
                      Return(Settle(@, "failed"), ExceptResult(task[t].seq))]
               /\ was_paused' = ExceptFlag(task[t].seq, was_paused)
    /\ UNCHANGED <<data, room_map, dec_in, dec_out, read>>

\* Lines 464-475: after sleep(0.5), the mode write if the command has one.
sleep05_done(t) ==
    /\ task[t].pc = "sl05"
    /\ task' = [task EXCEPT ![t] =
           IF ModeFor(task[t].cmd) # "none"
           THEN [Issue(@, Op("5", ModeFor(task[t].cmd))) EXCEPT !.pc = "aw5"]
           ELSE [@ EXCEPT !.pc = "sl10"]]
    /\ UNCHANGED <<data, was_paused, room_map, dec_in, dec_out, read>>

\* Lines 475-476: after sleep(1.0), request the refresh.
sleep10_done(t) ==
    /\ task[t].pc = "sl10"
    /\ task' = [task EXCEPT ![t] =
           [Issue(@, Op("refresh", "")) EXCEPT !.pc = "arefresh"]]
    /\ UNCHANGED <<data, was_paused, room_map, dec_in, dec_out, read>>

\* Line 476 returns: _send_command is over and its caller goes on, to
\* line 543 (resume), 494 / 677 (after the start token), 500 / 684 (after
\* the cleaning token) or to its return (pause, return).
refresh_done(t) ==
    /\ task[t].pc = "arefresh"
    /\ data' \in RefreshOutcomes(data)
    /\ LET me == Settle(task[t], "ok") IN
       task' = [task EXCEPT ![t] =
           CASE me.seq = "resume" -> Return(me, "ok")
             [] me.seq \in {"pause", "return"} -> Return(me, "ok")
             [] me.cmd = "start" -> [me EXCEPT !.pc = "sl20"]
             [] OTHER -> [Issue(me, Op("refresh", "")) EXCEPT !.pc = "afinal"]]
    /\ was_paused' = IF task[t].seq = "resume" THEN FALSE ELSE was_paused
    /\ UNCHANGED <<room_map, dec_in, dec_out, read>>

\* Lines 494-497 / 677-681: after sleep(2.0), the cleaning token.
sleep20_done(t) ==
    /\ task[t].pc = "sl20"
    /\ task' = [task EXCEPT ![t] =
           [Issue(@, Op("152", "cleaning")) EXCEPT !.pc = "aw152", !.cmd = "cleaning"]]
    /\ UNCHANGED <<data, was_paused, room_map, dec_in, dec_out, read>>

\* Lines 500-505 / 684-689: the final refresh returns; _is_running only logs.
final_refresh_done(t) ==
    /\ task[t].pc = "afinal"
    /\ data' \in RefreshOutcomes(data)
    /\ task' = [task EXCEPT ![t] = Return(Settle(@, "ok"), "ok")]
    /\ UNCHANGED <<was_paused, room_map, dec_in, dec_out, read>>

\* Lines 669-674: the command the room sequence sends after the selection,
\* whatever the shadow flag was.
room_command_resumes_when_paused(flag) == IF flag THEN "cleaning" ELSE "start"
room_command(flag) == "start"

\* Lines 667-674: after the room command's sleep(0.5), the start token.
room_sleep_done(t) ==
    /\ task[t].pc = "sl05r"
    /\ was_paused' = FALSE
    /\ LET cmd == room_command(was_paused) IN
       task' = [task EXCEPT ![t] =
           [Issue(@, Op("152", cmd)) EXCEPT !.pc = "aw152", !.cmd = cmd]]
    /\ UNCHANGED <<data, room_map, dec_in, dec_out, read>>

\* The coordinator's 30 s poll (or a debounced refresh running late).
poll ==
    /\ data' \in RefreshOutcomes(data)
    /\ UNCHANGED <<was_paused, room_map, task, dec_in, dec_out, read>>

\* Home Assistant reads the entity's activity property to write its state.
read_activity ==
    /\ was_paused' = activity(data, was_paused).flag
    /\ UNCHANGED <<data, room_map, task, dec_in, dec_out, read>>

Init ==
    /\ data = NoneData
    /\ was_paused = FALSE
    /\ room_map \in RoomMaps
    /\ task = [t \in Tasks |-> IdleTask]
    /\ dec_in = PyNone
    /\ dec_out = NoResult
    /\ read = NoRead

Next ==
    \/ \E t \in Tasks : async_start(t)
    \/ \E t \in Tasks : async_turn_on(t)
    \/ \E t \in Tasks : async_pause(t)
    \/ \E t \in Tasks : async_stop(t)
    \/ \E t \in Tasks : async_turn_off(t)
    \/ \E t \in Tasks : async_return_to_base(t)
    \/ \E t \in Tasks : async_send_command(t)
    \/ \E t \in Tasks : async_set_fan_speed(t)
    \/ \E t \in Tasks : async_set_done(t)
    \/ \E t \in Tasks : sleep05_done(t)
    \/ \E t \in Tasks : sleep10_done(t)
    \/ \E t \in Tasks : refresh_done(t)
    \/ \E t \in Tasks : sleep20_done(t)
    \/ \E t \in Tasks : final_refresh_done(t)
    \/ \E t \in Tasks : room_sleep_done(t)
    \/ poll
    \/ read_activity

Spec == Init /\ [][Next]_vars

(***************************************************************************)
(* The decoder on its own: one call of decode_dps153_to_state on an        *)
(* argument drawn from byte blobs, strings and values of other types.      *)
(***************************************************************************)
MaxBlobLen == 12
MaxStrLen == 4

\* Byte values tried at each offset: the values the rules test there and
\* one value no rule tests.
ByteChoices(k) ==
    CASE k = 0 -> {6, 0}
      [] k = 1 -> {16, 10, 0}
      [] k = 2 -> {3, 7, 9, 0}
      [] k = 3 -> {16, 66, 250, 26, 58, 0}
      [] k = 4 -> {5, 9, 2, 0}
      [] k = 5 -> {8}
      [] k = 6 -> {2, 1}
      [] k = 11 -> {58, 0}
      [] OTHER -> {0}

RECURSIVE BlobsOfLen(_)
BlobsOfLen(n) ==
    IF n = 0 THEN {<<>>}
    ELSE {Append(b, x) : b \in BlobsOfLen(n - 1), x \in ByteChoices(n - 1)}

\* 'A', 'g', 'O', '=' and '!' (not a base64 character).
StrChars == {65, 103, 79, 61, 33}

RECURSIVE StrsOfLen(_)
StrsOfLen(n) ==
    IF n = 0 THEN {<<>>}
    ELSE {Append(cs, c) : cs \in StrsOfLen(n - 1), c \in StrChars}

DecodeInputs ==
    {PyBytes(b) : b \in UNION {BlobsOfLen(n) : n \in 0..MaxBlobLen}}
    \cup {PyStr(cs) : cs \in UNION {StrsOfLen(n) : n \in 0..MaxStrLen}}
    \cup {PyNone, PyInt(7)}

InitDecode ==
    /\ dec_in \in DecodeInputs
    /\ dec_out = NoResult
    /\ data = NoneData
    /\ was_paused = FALSE
    /\ room_map = {}
    /\ task = [t \in Tasks |-> IdleTask]
    /\ read = NoRead

decode_call ==
    /\ dec_out = NoResult
    /\ dec_out' = decode_dps153_to_state(dec_in)
    /\ UNCHANGED <<data, was_paused, room_map, task, dec_in, read>>

NextDecode == decode_call

SpecDecode == InitDecode /\ [][NextDecode]_vars

(***************************************************************************)
(* The read accessors on their own: a status mapping and a value of the    *)
(* flag are drawn, then Home Assistant evaluates the properties in any     *)
(* order.  read holds the accessor evaluated last and what it gave.        *)
(***************************************************************************)
\* The dicts with key absent, or key bound to one of vals.
Opt(key, vals) == {[k \in {} |-> PyNone]} \cup {key :> v : v \in vals}

\* DPS 9 / 158: every token of the table, "turbo", "", an int, None.
FanValues ==
    {PyStr(k) : k \in DOMAIN EUFY_TO_HA_FAN_SPEED_MAP}
    \cup {PyStr(<<116, 117, 114, 98, 111>>), PyStr(<<>>), PyInt(2), PyNone}

\* DPS 8 / 163: in and out of range, and the strings "85", "abc", " 7 ",
\* "1_0", "-5", "".
BatteryValues ==
    {PyInt(-1), PyInt(0), PyInt(50), PyInt(100), PyInt(101), PyNone,
     PyStr(<<56, 53>>), PyStr(<<97, 98, 99>>), PyStr(<<32, 55, 32>>),
     PyStr(<<49, 95, 48>>), PyStr(<<45, 53>>), PyStr(<<>>)}

FanInputs == {a @@ b : a \in Opt("9", FanValues), b \in Opt("158", FanValues)}
BatteryInputs ==
    {a @@ b : a \in Opt("8", BatteryValues), b \in Opt("163", BatteryValues)}

\* DPS 6 / 7 / 8 / 152 / 153 as activity reads them; the blobs are
\* "BgoAEAUYAg==" (paused pattern), "ABAA" (00 10 00) and "AA==" (one byte).
ActivityInputs ==
    {a @@ b @@ c @@ d @@ e :
        a \in Opt("6", {PyInt(0), PyInt(1), PyInt(2), PyInt(3), PyInt(99),
                        PyInt(100), PyInt(250), PyStr(<<49, 48, 48>>)}),
        b \in Opt("7", {PyInt(0), PyInt(2), PyInt(3), PyInt(4)}),
        c \in Opt("8", {PyInt(94), PyInt(95), PyStr(<<56, 53>>), PyNone}),
        d \in Opt("152", {PyStr(S1_PRO_COMMANDS.start), PyStr(S1_PRO_COMMANDS.cleaning),
                          PyStr(S1_PRO_COMMANDS.pause), PyStr(S1_PRO_COMMANDS.return)}),
        e \in Opt("153", {PyStr(<<66, 103, 111, 65, 69, 65, 85, 89, 65, 103, 61, 61>>),
                          PyStr(<<65, 66, 65, 65>>), PyStr(S1_PRO_COMMANDS.start)})}

ReadInputs ==
    {NoneData} \cup {Dict(d) : d \in FanInputs \cup BatteryInputs \cup ActivityInputs}

InitRead ==
    /\ data \in ReadInputs
    /\ was_paused \in BOOLEAN
    /\ read = NoRead
    /\ room_map = {}
    /\ task = [t \in Tasks |-> IdleTask]
    /\ dec_in = PyNone
    /\ dec_out = NoResult

\* Lines 274-360: the activity property is read; its value is kept in read.
get_activity ==
    /\ LET a == activity(data, was_paused) IN
       /\ was_paused' = a.flag
       /\ read' = IF a.exc THEN ReadRaise("activity", "TypeError")
                  ELSE ReadRet("activity", a.val, 0)
    /\ UNCHANGED <<data, room_map, task, dec_in, dec_out>>

get_battery_level ==
    /\ read' = battery_level(data)
    /\ UNCHANGED <<data, was_paused, room_map, task, dec_in, dec_out>>

get_fan_speed ==
    /\ read' = fan_speed(data)
    /\ UNCHANGED <<data, was_paused, room_map, task, dec_in, dec_out>>

get_error_code ==
    /\ read' = error_code(data)
    /\ UNCHANGED <<data, was_paused, room_map, task, dec_in, dec_out>>

NextRead ==
    \/ get_activity
    \/ get_battery_level
    \/ get_fan_speed
    \/ get_error_code

SpecRead == InitRead /\ [][NextRead]_vars

(***************************************************************************)
(* Properties                                                              *)
(***************************************************************************)
Called == dec_out # NoResult

\* The argument is a byte blob, given raw or as valid base64; InBlob is it.
InIsBlob ==
    \/ dec_in.ty = "bytes"
    \/ dec_in.ty = "str" /\ ~b64decode(dec_in.s).exc
InBlob == IF dec_in.ty = "str" THEN b64decode(dec_in.s).val ELSE dec_in.s

\* t's coroutine takes its first step, as the intent named.
Issued(t, intent) ==
    /\ task[t].pc = "idle"
    /\ task'[t] # task[t]
    /\ task'[t].intent = intent

IsSet(op) == op[1] \in {"152", "5", "173", "9+158"}
IsRefresh(op) == op[1] = "refresh"

\* C1: a Start issued while _was_paused is true (and a status dict has been
\* read) takes the resume path: its one device write is the cleaning token.
C1_StartWhilePausedResumes ==
    [][\A t \in Tasks :
          (was_paused /\ ~data.none /\ Issued(t, "start"))
              => /\ task'[t].seq = "resume"
                 /\ task'[t].log = <<Op("152", "cleaning")>>]_vars

\* C2: two command sequences never overlap: while one coroutine is between
\* its first write and its return, no other coroutine has issued a write.
C2_SequencesExclusive ==
    \A t, u \in Tasks :
        t # u => ~(Running(task[t]) /\ Running(task[u]))

\* C3: a sequence requests no status refresh before its last device write:
\* in its log no refresh precedes a write.
C3_NoRefreshInsideSequence ==
    \A t \in Tasks :
        \A i, j \in 1..Len(task[t].log) :
            (i < j /\ IsRefresh(task[t].log[i])) => ~IsSet(task[t].log[j])

\* C4: decode never raises and returns a member of RobovacState, for a blob
\* of any length, any string and a value of another type.
C4_DecodeTotal ==
    Called => (~dec_out.exc /\ dec_out.state \in RobovacState)

C4_Witness ==
    /\ Called
    /\ dec_in.ty = "str" /\ b64decode(dec_in.s).exc
    /\ dec_out = Ret("unknown", "error")

\* C5: a blob of length >= 3 that starts 06 10 03 decodes to
\* (room_cleaning, "cleaning").
C5_RoomCleaningFirst ==
    (Called /\ InIsBlob /\ Len(InBlob) >= 3
       /\ At(InBlob, 0) = 6 /\ At(InBlob, 1) = 16 /\ At(InBlob, 2) = 3)
    => dec_out = Ret("room_cleaning", "cleaning")

\* C6: a blob with bytes 1..4 = 0a 00 10 05 decodes to (paused, "paused")
\* when it has a byte 6 equal to 02, and to (cleaning, "cleaning") otherwise.
C6_CleaningOrPaused ==
    (Called /\ InIsBlob /\ Len(InBlob) >= 5
       /\ At(InBlob, 1) = 10 /\ At(InBlob, 2) = 0
       /\ At(InBlob, 3) = 16 /\ At(InBlob, 4) = 5)
    => dec_out = IF Len(InBlob) >= 7 /\ At(InBlob, 6) = 2
                 THEN Ret("paused", "paused")
                 ELSE Ret("cleaning", "cleaning")

\* C7: a blob shorter than 3 bytes decodes to (unknown, "unknown").
C7_ShortBlobUnknown ==
    (Called /\ InIsBlob /\ Len(InBlob) < 3)
    => dec_out = Ret("unknown", "unknown")

C7_Witness ==
    /\ Called
    /\ dec_in.ty = "bytes" /\ Len(dec_in.s) = 2
    /\ dec_out = Ret("unknown", "unknown")

\* C8: a blob with bytes 1..3 = 10 07 42 decodes to (returning, "returning").
C8_Returning ==
    (Called /\ InIsBlob /\ Len(InBlob) >= 4
       /\ At(InBlob, 1) = 16 /\ At(InBlob, 2) = 7 /\ At(InBlob, 3) = 66)
    => dec_out = Ret("returning", "returning")

\* C9: a blob with byte 1 = 10, byte 2 = 03 decodes to (docked, "charging")
\* when byte 4 is 00 and to (docked, "fully_charged") when byte 4 is 02,
\* whatever byte 0 is.
C9_DockedCharging ==
    (Called /\ InIsBlob /\ Len(InBlob) >= 5
       /\ At(InBlob, 1) = 16 /\ At(InBlob, 2) = 3 /\ At(InBlob, 4) \in {0, 2})
    => dec_out = IF At(InBlob, 4) = 0
                 THEN Ret("docked", "charging")
                 ELSE Ret("docked", "fully_charged")

\* C10: a blob of length >= 3 that matches none of rules 1 to 5 decodes to
\* (docked, "idle"), never to unknown.
C10_DefaultDockedIdle ==
    (Called /\ InIsBlob /\ Len(InBlob) >= 3
       /\ At(InBlob, 1) # 16
       /\ ~(/\ At(InBlob, 1) = 10 /\ At(InBlob, 2) = 0 /\ Len(InBlob) >= 5
            /\ At(InBlob, 3) = 16 /\ At(InBlob, 4) \in {5, 9}))
    => dec_out = Ret("docked", "idle")

\* The operations of a log without their outcomes, and its device writes.
Ops(log) == [i \in 1..Len(log) |-> <<log[i][1], log[i][2]>>]
Writes(log) == Ops(SelectSeq(log, IsSet))
IsPrefix(a, b) == Len(a) <= Len(b) /\ \A i \in 1..Len(a) : a[i] = b[i]

\* t's coroutine returns or raises in this step.
Ends(t) == Running(task[t]) /\ ~Running(task'[t])

FreshWrites == <<<<"152", "start">>, <<"5", "smart">>, <<"152", "cleaning">>>>
RoomWrites(room_id) == <<<<"173", room_id>>>> \o FreshWrites
PauseOps == <<<<"152", "pause">>, <<"5", "pause">>, <<"refresh", "">>>>

\* C11: a blob that rule 3 or rule 5 classifies gets (docked, substatus)
\* with the substatus of the docked table: the mop family under 10 09, the
\* water family under 0a 00 10 09, idle under 10 with another byte 2.
C11_DockedSubstatus ==
    (Called /\ InIsBlob /\ Len(InBlob) >= 3) =>
        LET b == InBlob
            n == Len(InBlob)
        IN
        /\ (At(b, 1) = 16 /\ At(b, 2) = 9)
              => dec_out = Ret("docked",
                     IF n >= 4 /\ At(b, 3) = 250 THEN "dust_collecting"
                     ELSE IF n >= 4 /\ At(b, 3) = 26 THEN "mop_drying"
                     ELSE IF n >= 4 /\ At(b, 3) = 58 THEN "mop_washing"
                     ELSE "mop_operations")
        /\ (At(b, 1) = 10 /\ At(b, 2) = 0 /\ n >= 5 /\ At(b, 3) = 16 /\ At(b, 4) = 9)
              => dec_out = Ret("docked",
                     IF n >= 12 /\ At(b, 11) = 58 THEN "mop_washing_pre"
                     ELSE "water_refilling")
        /\ (At(b, 1) = 16 /\ At(b, 2) \notin {3, 9}
              /\ ~(At(b, 2) = 7 /\ n >= 4 /\ At(b, 3) = 66))
              => dec_out = Ret("docked", "idle")

\* C12: Pause has set _was_paused when its pause-token write is issued, and
\* when that write fails _was_paused is false as Pause returns.
C12_PauseSetsThenResets ==
    [][\A t \in Tasks :
          /\ Issued(t, "pause")
                => (was_paused' /\ task'[t].log = <<Op("152", "pause")>>)
          /\ (task[t].intent = "pause" /\ task[t].pc = "aw152" /\ Ends(t)
                /\ task'[t].log[1][3] = "failed")
                => ~was_paused']_vars

C12_Witness ==
    \E t \in Tasks :
        /\ task[t].intent = "pause" /\ task[t].pc = "idle"
        /\ task[t].log = <<<<"152", "pause", "failed">>>>
        /\ ~was_paused

\* C13: no intent returns normally after one of its device writes failed.
C13_WriteFailureSurfaces ==
    \A t \in Tasks :
        (task[t].pc = "idle" /\ task[t].result = "ok")
            => \A i \in 1..Len(task[t].log) : task[t].log[i][3] # "failed"

\* C14: a Start that runs the fresh-start sequence writes the start token,
\* then the cleaning token, and nothing else, and requests a refresh only
\* after the cleaning-token write.
C14_FreshStartWrites ==
    \A t \in Tasks :
        (task[t].intent = "start" /\ task[t].seq = "fresh") =>
            /\ IsPrefix(Writes(task[t].log),
                        <<<<"152", "start">>, <<"152", "cleaning">>>>)
            /\ \A i, j \in 1..Len(task[t].log) :
                  (i < j /\ IsRefresh(task[t].log[i]))
                      => Ops(task[t].log)[j] # <<"152", "cleaning">>

\* C15: CleanRoom of a configured room writes the selection payload first
\* and then the start token followed by the cleaning token, whatever
\* _was_paused and the status are; it never writes the cleaning token alone.
C15_RoomRunsFreshStart ==
    \A t \in Tasks :
        (task[t].intent = "clean_room" /\ task[t].log # <<>>) =>
            /\ task[t].seq = "room"
            /\ IsPrefix(Writes(task[t].log), RoomWrites(task[t].arg))
            /\ (task[t].pc = "idle" /\ task[t].result = "ok")
                  => Writes(task[t].log) = RoomWrites(task[t].arg)

C15_Witness ==
    \E t \in Tasks :
        /\ task[t].intent = "clean_room" /\ task[t].pc = "idle"
        /\ task[t].result = "ok"
        /\ Writes(task[t].log) = RoomWrites("1")

\* C16: CleanRoom with a room id fails with the no-mappings error (a
\* non-empty remediation message) when no mapping is configured, and with
\* the not-found error listing the configured ids when the id is missing;
\* either way nothing has been written and _was_paused is unchanged.
C16_RoomErrors ==
    [][\A t \in Tasks :
          (Issued(t, "clean_room") /\ task'[t].arg # "none"
              /\ task'[t].arg \notin room_map) =>
             /\ task'[t].pc = "idle" /\ task'[t].result = "raised"
             /\ task'[t].err.kind = "ValueError"
             /\ task'[t].log = <<>>
             /\ was_paused' = was_paused
             /\ IF room_map = {}
                THEN task'[t].err.msg = MsgNoMappings /\ MsgNoMappings # ""
                ELSE /\ task'[t].err.msg = MsgRoomNotFound
                     /\ task'[t].err.rooms = room_map]_vars

C16_Witness ==
    \E t \in Tasks :
        /\ task[t].intent = "clean_room" /\ task[t].arg = "2"
        /\ task[t].result = "raised" /\ task[t].log = <<>>
        /\ task[t].err.msg = MsgRoomNotFound /\ task[t].err.rooms = {"1"}

\* C17: a write that fails inside a fresh-start or room sequence is the
\* sequence's last operation: the coroutine has raised, and its writes are a
\* prefix of the sequence's writes (no retry, no compensating write).
C17_FailureAborts ==
    \A t \in Tasks :
        task[t].seq \in {"fresh", "room"} =>
            /\ \A i \in 1..Len(task[t].log) :
                  task[t].log[i][3] = "failed"
                      => (i = Len(task[t].log) /\ task[t].pc = "idle"
                            /\ task[t].result = "raised")
            /\ IsPrefix(Writes(task[t].log),
                        IF task[t].seq = "room" THEN RoomWrites(task[t].arg)
                        ELSE FreshWrites)

C17_Witness ==
    \E t \in Tasks :
        /\ task[t].seq = "fresh" /\ task[t].pc = "idle"
        /\ task[t].result = "raised"
        /\ Len(task[t].log) >= 2
        /\ task[t].log[1][3] = "ok"
        /\ task[t].log[Len(task[t].log)][3] = "failed"

\* C18: a step that is no part of an intent (no coroutine moves) leaves
\* _was_paused unchanged; reading the activity property is such a step.
C18_FlagOnlyByIntents ==
    [][(task' = task /\ data' = data) => was_paused' = was_paused]_vars

\* C19: when Return returns, _was_paused is false, whether its write
\* succeeded or not, and the return token was its first device write.
C19_ReturnClearsFlag ==
    [][\A t \in Tasks :
          (task[t].intent = "return" /\ Ends(t)) =>
              /\ ~was_paused'
              /\ Ops(task'[t].log)[1] = <<"152", "return">>]_vars

\* C20: Stop does what Pause does: its first step is Pause's first step,
\* its operations are Pause's operations in Pause's order, and a failed
\* write leaves _was_paused false and is swallowed, as in Pause.
C20_StopIsPause ==
    [][\A t \in Tasks :
          /\ Issued(t, "stop") =>
                /\ was_paused'
                /\ task'[t] = [Began("pause", "pause", "pause", "aw152",
                                     Op("152", "pause")) EXCEPT !.intent = "stop"]
          /\ task'[t].intent = "stop" =>
                /\ task'[t].seq = "pause"
                /\ IsPrefix(Ops(task'[t].log), PauseOps)
          /\ (task[t].intent = "stop" /\ Ends(t)
                /\ task'[t].log[Len(task'[t].log)][3] = "failed")
                => (~was_paused' /\ task'[t].result = "ok")]_vars

C20_Witness ==
    \E t \in Tasks :
        /\ task[t].intent = "stop" /\ task[t].pc = "idle"
        /\ task[t].result = "ok"
        /\ Ops(task[t].log) = PauseOps

\* Is the field a token of EUFY_TO_HA_FAN_SPEED_MAP?  Is it an int in 0..100?
InTable(key) ==
    key \in DOMAIN data.d /\ data.d[key].ty = "str"
        /\ data.d[key].s \in DOMAIN EUFY_TO_HA_FAN_SPEED_MAP
IntInRange(key) ==
    key \in DOMAIN data.d /\ data.d[key].ty = "int"
        /\ 0 <= data.d[key].i /\ data.d[key].i <= 100
Holds(key, v) == key \in DOMAIN data.d /\ data.d[key] = v

\* C21: for each of the four levels the table maps both tokens of the level
\* back to it, fan_speed shows the level when DPS 9 holds its primary token
\* or (DPS 9 absent) DPS 158 its secondary token, and two levels share
\* neither token.
C21_FanRoundTrip ==
    LET to_device == HA_TO_EUFY_FAN_SPEED_MAP
        from_device == EUFY_TO_HA_FAN_SPEED_MAP
    IN
    \A level \in DOMAIN to_device :
        /\ from_device[to_device[level][1]] = level
        /\ from_device[to_device[level][2]] = level
        /\ (read.acc = "fan_speed" /\ Holds("9", PyStr(to_device[level][1])))
              => read = ReadRet("fan_speed", level, 0)
        /\ (read.acc = "fan_speed" /\ "9" \notin DOMAIN data.d
              /\ Holds("158", PyStr(to_device[level][2])))
              => read = ReadRet("fan_speed", level, 0)
        /\ \A other \in DOMAIN to_device \ {level} :
              /\ to_device[other][1] # to_device[level][1]
              /\ to_device[other][2] # to_device[level][2]

C21_Witness ==
    /\ read = ReadRet("fan_speed", "Maximum", 0)
    /\ "9" \notin DOMAIN data.d
    /\ Holds("158", PyStr(HA_TO_EUFY_FAN_SPEED_MAP.Maximum[2]))

\* C22: fan_speed shows Standard for the legacy token "middle", and gives
\* None without raising when neither DPS 9 nor DPS 158 holds a token of the
\* table.
C22_MiddleAndUnknown ==
    LET middle == <<109, 105, 100, 100, 108, 101>> IN
    /\ EUFY_TO_HA_FAN_SPEED_MAP[middle] = "Standard"
    /\ (read.acc = "fan_speed" /\ Holds("9", PyStr(middle)))
          => read = ReadRet("fan_speed", "Standard", 0)
    /\ (read.acc = "fan_speed" /\ ~InTable("9") /\ ~InTable("158"))
          => read = ReadRet("fan_speed", "None", 0)

C22_Witness ==
    /\ read = ReadRet("fan_speed", "None", 0)
    /\ Holds("9", PyStr(<<116, 117, 114, 98, 111>>))
    /\ Holds("158", PyInt(2))

\* C23: async_send_command with a command other than clean_room raises the
\* unsupported-command ValueError, has issued no device operation and has
\* left _was_paused as it was.
C23_UnsupportedCommand ==
    [][\A t \in Tasks :
          (Issued(t, "send_command") /\ task'[t].arg # "clean_room") =>
              /\ task'[t].pc = "idle" /\ task'[t].result = "raised"
              /\ task'[t].err.kind = "ValueError"
              /\ task'[t].err.msg = MsgUnsupported
              /\ task'[t].log = <<>>
              /\ was_paused' = was_paused]_vars

C23_Witness ==
    \E t \in Tasks :
        /\ task[t].intent = "send_command" /\ task[t].arg = "spot_clean"
        /\ task[t].result = "raised" /\ task[t].err.msg = MsgUnsupported
        /\ task[t].log = <<>>

\* C24: no read accessor raises, whatever the status mapping.
C24_AccessorsNeverFault == ~read.exc

\* C25: battery_level gives DPS 8 when that is an int in 0..100, else
\* DPS 163 when that is an int in 0..100, else None.
C25_BatteryPercent ==
    read.acc = "battery_level" =>
        read = IF IntInRange("8") THEN ReadRet("battery_level", "int", data.d["8"].i)
               ELSE IF IntInRange("163")
               THEN ReadRet("battery_level", "int", data.d["163"].i)
               ELSE ReadRet("battery_level", "None", 0)

\* C26: when Pause returns, _was_paused is true exactly when its write of
\* the pause token succeeded.
C26_FlagTracksPauseWrite ==
    [][\A t \in Tasks :
          (task[t].intent = "pause" /\ Ends(t))
              => (was_paused' <=> task'[t].log[1][3] = "ok")]_vars

\* C27: right after activity has been evaluated, _was_paused is true if it
\* gave PAUSED and false if it gave CLEANING, RETURNING or DOCKED.
C27_FlagAgreesWithActivity ==
    (read.acc = "activity" /\ ~read.exc) =>
        /\ read.name = "paused" => was_paused
        /\ read.name \in {"cleaning", "returning", "docked"} => ~was_paused

\* C28: on a non-empty status mapping activity is ERROR exactly when
\* error_code is not None, that is when DPS 6 is an int >= 100, whatever
\* DPS 153 holds.
C28_ErrorIffErrorCode ==
    (read.acc = "activity" /\ DataTruthy(data)) =>
        /\ (read = ReadRet("activity", "error", 0))
              <=> (error_code(data).name # "None")
        /\ (read = ReadRet("activity", "error", 0))
              <=> ("6" \in DOMAIN data.d /\ data.d["6"].ty = "int"
                      /\ data.d["6"].i >= 100)

C28_Witness ==
    /\ read = ReadRet("activity", "error", 0)
    /\ "153" \in DOMAIN data.d
    /\ error_code(data) = ReadRet("error_code", "str", 250)

\* C29: when Start returns without a failed write _was_paused is false, and
\* when its resume write failed _was_paused is what it was before Start.
C29_StartClearsFlag ==
    [][\A t \in Tasks :
          (task[t].intent = "start" /\ Ends(t)) =>
              IF \A i \in 1..Len(task'[t].log) : task'[t].log[i][3] # "failed"
              THEN ~was_paused'
              ELSE task'[t].seq = "resume"
                      => (was_paused' <=> task'[t].before = "true")]_vars

====
